---- MODULE Spec2Model ----
(***************************************************************************)
(* DictMemoryCacheManager (bclib/cache/dict_cache_manager.py): an          *)
(* OrderedDict from key to a list of cache items, bounded by a maximum     *)
(* number of keys, with the memoizing decorator, the dispatcher's cache()  *)
(* entry point and the periodic sweep.                                     *)
(***************************************************************************)
EXTENDS Integers, Sequences, FiniteSets, TLC

\* ---------------------------------------------------------------- bounds
MaxEntries == 3     \* cache items held by the store, all buckets together

\* ----------------------------------------------------- manager's options
max_size == 2
default_life_time == 1
max_life_time == 2

\* ------------------------------------------------------------ value sets
None == "None"                      \* Python's None, as a key or a payload
Keys == {"A", "B", "C"}             \* keys of the request operations
Data == {"a", "b"}                  \* payloads of the request operations
Functions == {"f1", "f2"}           \* the functions, each decorated once

\* a life_time argument as the Python value it is
IntLT(n) == [type |-> "int", v |-> n]
NoneLT == [type |-> "NoneType", v |-> 0]
StrLT == [type |-> "str", v |-> 0]     \* the string "None"
Omitted == [type |-> "omitted", v |-> 0]   \* no life_time argument at all
StoreLifeTimes == {NoneLT, IntLT(0)}

\* the (key, life_time) pairs given to the decorator
MemoArgs ==
  {[key |-> "A", lt |-> NoneLT], [key |-> "A", lt |-> IntLT(3)],
   [key |-> "A", lt |-> Omitted], [key |-> "", lt |-> NoneLT],
   [key |-> None, lt |-> NoneLT], [key |-> None, lt |-> Omitted]}

\* reset's keys argument: None, or a list of keys
NoKeys == [none |-> TRUE, list |-> <<>>]
KeyList(s) == [none |-> FALSE, list |-> s]
ResetArgs ==
  {NoKeys, KeyList(<<>>), KeyList(<<"A">>), KeyList(<<"B", "C">>), KeyList(<<"C", "C">>)}
SweepKeys == {"A", "B"}
SweepResetArgs == {NoKeys, KeyList(<<"A">>)}
MemoResetArgs == {NoKeys, KeyList(<<>>), KeyList(<<"A">>)}
\* every key list, for the algebra of reset
KeyLists ==
  {NoKeys, KeyList(<<>>)}
    \cup {KeyList(<<k>>) : k \in Keys}
    \cup {KeyList(<<"A", "B">>), KeyList(<<"B", "A">>), KeyList(<<"C", "A">>),
          KeyList(<<"C", "C">>)}

\* create_signaler's options argument: None, or a dict ("type" is the value
\* under its "type" key, NoType when it has none; "entries" its length)
NoType == "NoType"
NoOptions == [none |-> TRUE, entries |-> 0, type |-> NoType]
Options(n, t) == [none |-> FALSE, entries |-> n, type |-> t]
SignalerOptions ==
  {NoOptions, Options(0, NoType), Options(1, NoType), Options(1, "none"),
   Options(2, "rabbit"), Options(2, "redis"), Options(1, "Rabbit"),
   Options(1, None)}

VARIABLES
  cache_dict,   \* the OrderedDict, oldest first: Seq([key, items])
  fitems,       \* function.cache: the FunctionCacheItem bound to each function
  sweep,        \* the position of a running _clean
  touched,      \* ghost: the keys of the store, least recently touched first
  signaler,     \* the invalidation channel create_signaler returned
  last          \* the last call and what it returned

vars == <<cache_dict, fitems, sweep, touched, signaler, last>>

\* ------------------------------------------------------------ cache items
Min(a, b) == IF a < b THEN a ELSE b
Max(a, b) == IF a < b THEN b ELSE a

\* the life time an item is created with
ItemLifeTime(lt) ==
  IF lt.type = "NoneType" THEN default_life_time
  ELSE Min(Max(lt.v, 0), max_life_time)

\* Time is kept relative to the clock: "expire" holds the seconds left until
\* the item's expire time (expire time minus now, never below 0).
CostumCacheItem(data, lt) ==
  [kind |-> "custom", data |-> data, expire |-> ItemLifeTime(lt), fn |-> None]

\* a bucket's reference to the FunctionCacheItem object of function f
FunctionItemRef(f) ==
  [kind |-> "function", data |-> None, expire |-> 0, fn |-> f]

NoItem ==
  [bound |-> FALSE, key |-> None, data |-> None, expire |-> 0, life_time |-> 0]

\* item.data(): the payload until the expire time, None from then on
ItemDataAt(item, heap) ==
  IF item.kind = "custom"
    THEN (IF item.expire > 0 THEN item.data ELSE None)
    ELSE (IF heap[item.fn].expire > 0 THEN heap[item.fn].data ELSE None)

ItemData(item) == ItemDataAt(item, fitems)

\* what a decorated function computes
Result(f) == IF f = "f1" THEN "r1" ELSE "r2"

\* ------------------------------------------------------ OrderedDict
KeysOf(d) == {d[i].key : i \in DOMAIN d}
KeyOrder(d) == [i \in DOMAIN d |-> d[i].key]
IndexOf(d, key) == CHOOSE i \in DOMAIN d : d[i].key = key
Bucket(d, key) == IF key \in KeysOf(d) THEN d[IndexOf(d, key)].items ELSE <<>>

RECURSIVE TotalEntries(_)
TotalEntries(d) ==
  IF d = <<>> THEN 0 ELSE Len(Head(d).items) + TotalEntries(Tail(d))

Without(d, key) == SelectSeq(d, LAMBDA e : e.key # key)

move_to_end(d, key) == Append(Without(d, key), d[IndexOf(d, key)])

popitem_newest(d) == SubSeq(d, 1, Len(d) - 1)
popitem_first(d) == Tail(d)

SetItem(d, key, items) ==
  IF key \in KeysOf(d)
    THEN [d EXCEPT ![IndexOf(d, key)].items = items]
    ELSE Append(d, [key |-> key, items |-> items])

\* _size and the inherited _is_valid_size
_size(d) == Len(d)
_is_valid_size(d) == _size(d) <= max_size


\* ------------------------------------------------- the store's operations
\* _add_to_cache(key, cache_item): the dictionary afterwards
add_to_cache_replacing(d, key, item) ==
  IF key \in KeysOf(d)
    THEN move_to_end(SetItem(d, key, <<item>>), key)
    ELSE LET d1 == SetItem(d, key, <<item>>)
         IN IF ~_is_valid_size(d1) THEN popitem_first(d1) ELSE d1

add_to_cache_in_place(d, key, item) ==
  IF key \in KeysOf(d)
    THEN SetItem(d, key, Append(Bucket(d, key), item))
    ELSE LET d1 == SetItem(d, key, <<item>>)
         IN IF ~_is_valid_size(d1) THEN popitem_first(d1) ELSE d1

add_to_cache_prepending(d, key, item) ==
  IF key \in KeysOf(d)
    THEN move_to_end(SetItem(d, key, <<item>> \o Bucket(d, key)), key)
    ELSE LET d1 == SetItem(d, key, <<item>>)
         IN IF ~_is_valid_size(d1) THEN popitem_first(d1) ELSE d1

_add_to_cache(d, key, item) ==
  IF key \in KeysOf(d)
    THEN move_to_end(SetItem(d, key, Append(Bucket(d, key), item)), key)
    ELSE LET d1 == SetItem(d, key, <<item>>)
         IN IF ~_is_valid_size(d1) THEN popitem_first(d1) ELSE d1

\* the status _add_to_cache returns, on either branch
AddStatus(d, key) == IF key \in KeysOf(d) THEN "UPDATED" ELSE "UPDATED"

\* reset(keys): the dictionary afterwards
RECURSIVE PopEachOrOldest(_, _)
PopEachOrOldest(d, list) ==
  IF list = <<>> THEN d
  ELSE PopEachOrOldest(IF Head(list) \in KeysOf(d) THEN Without(d, Head(list))
                       ELSE IF d # <<>> THEN Tail(d) ELSE d,
                       Tail(list))

PopFirstOnly(d, list) ==
  IF list # <<>> /\ Head(list) \in KeysOf(d) THEN Without(d, Head(list)) ELSE d

RECURSIVE PopEach(_, _)
PopEach(d, list) ==
  IF list = <<>> THEN d
  ELSE PopEach(IF Head(list) \in KeysOf(d) THEN Without(d, Head(list)) ELSE d,
               Tail(list))

reset_named_only(d, keys) == PopEach(d, keys.list)

reset_unless_empty_list(d, keys) ==
  IF keys.none THEN <<>> ELSE PopEach(d, keys.list)

reset(d, keys) ==
  IF keys.none \/ Len(keys.list) = 0 THEN <<>> ELSE PopEach(d, keys.list)

\* _clean's inner loop: the items of a bucket whose data() is not None
ValidItems(items, heap) ==
  SelectSeq(items, LAMBDA item : ItemDataAt(item, heap) # None)

\* _clean(): the dictionary afterwards
clean_keeping_keys(d, heap) ==
  [i \in DOMAIN d |-> [key |-> d[i].key, items |-> ValidItems(d[i].items, heap)]]

_clean(d, heap) ==
  LET kept == [i \in DOMAIN d |->
                 [key |-> d[i].key, items |-> ValidItems(d[i].items, heap)]]
  IN SelectSeq(kept, LAMBDA e : Len(e.items) > 0)

\* get_cache(key): the dictionary afterwards, and the list it builds
get_cache_unpromoted(d, key) == d

get_cache_purging(d, key) ==
  IF key \in KeysOf(d)
    THEN move_to_end(SetItem(d, key,
                             SelectSeq(Bucket(d, key),
                                       LAMBDA item : item.kind # "custom"
                                                       \/ item.expire > 0)),
                     key)
    ELSE d

get_cache_inserting(d, key) ==
  IF key \in KeysOf(d) THEN move_to_end(d, key)
  ELSE Append(d, [key |-> key, items |-> <<>>])

get_cache(d, key) == IF key \in KeysOf(d) THEN move_to_end(d, key) ELSE d

DataOfEvery(items, heap) ==
  [i \in DOMAIN items |->
     IF items[i].kind = "custom" THEN items[i].data ELSE heap[items[i].fn].data]

RECURSIVE DataOf(_, _)
DataOf(items, heap) ==
  IF items = <<>> THEN <<>>
  ELSE LET x == ItemDataAt(Head(items), heap)
       IN (IF x # None THEN <<x>> ELSE <<>>) \o DataOf(Tail(items), heap)

\* remove(key, data): the index in the bucket of the selected item, 0 if none
SelectedIndex(items, data, heap) ==
  LET hits == {i \in DOMAIN items : ItemDataAt(items[i], heap) = data}
  IN IF hits = {} THEN 0 ELSE CHOOSE i \in hits : \A j \in hits : i <= j

DropAt(s, i) == [j \in 1..(Len(s) - 1) |-> IF j < i THEN s[j] ELSE s[j + 1]]

remove_with_empty_key(d, key, data, heap) ==
  IF key \in KeysOf(d) /\ SelectedIndex(Bucket(d, key), data, heap) # 0
    THEN (IF Len(Bucket(d, key)) = 1 THEN Without(d, key)
          ELSE SetItem(d, key,
                       DropAt(Bucket(d, key),
                              SelectedIndex(Bucket(d, key), data, heap))))
    ELSE d

remove_every_match(d, key, data, heap) ==
  IF key \in KeysOf(d) /\ SelectedIndex(Bucket(d, key), data, heap) # 0
    THEN SetItem(d, key,
                 SelectSeq(Bucket(d, key),
                           LAMBDA item : ItemDataAt(item, heap) # data))
    ELSE d

remove(d, key, data, heap) ==
  IF key \in KeysOf(d) /\ SelectedIndex(Bucket(d, key), data, heap) # 0
    THEN SetItem(d, key,
                 DropAt(Bucket(d, key), SelectedIndex(Bucket(d, key), data, heap)))
    ELSE d

\* set_data(key, data, life_time): the dictionary afterwards
set_data_appending(d, key, item) ==
  move_to_end(SetItem(d, key, Append(Bucket(d, key), item)), key)

set_data(d, key, item) ==
  LET d1 == SetItem(d, key, <<item>>) IN move_to_end(d1, key)

\* decorator(function), line 50: the key the decorator refuses
KeyMissingNever(key) == FALSE
KeyMissing(key) == key = None

\* cache_decorator, line 48: the life time the decorator works with
DecoratorLifeTime(lt) ==
  IF lt.type # "NoneType" THEN Min(lt.v, max_life_time) ELSE default_life_time

\* RoutingDispatcher.cache(life_time=0, key=None): what it hands on
DispatcherLifeTime(lt) == IF lt.type = "omitted" THEN IntLT(0) ELSE lt

\* cache_decorator(key, life_time="None"): what an omitted life_time becomes
DefaultLifeTime(lt) == IF lt.type = "omitted" THEN StrLT ELSE lt




\* create_signaler, line 9: the type the factory goes by
signaler_type(options) ==
  IF (~options.none /\ options.entries > 0) /\ options.type # NoType
    THEN options.type ELSE "none"

\* the channels: NoSignaler() holds no callback, RabbitSignaller(options,
\* callback) holds the one it was given; Raised stands for the raise of
\* line 15, which returns no channel
NoChannel == [kind |-> None, callback |-> None]
NoSignaler == [kind |-> "NoSignaler", callback |-> None]
RabbitSignaller(options, callback) == [kind |-> "RabbitSignaller", callback |-> callback]
Raised == [kind |-> "Exception", callback |-> None]

\* create_signaler(options, callback)
create_signaler_lenient(options, callback) ==
  IF signaler_type(options) = "rabbit" THEN RabbitSignaller(options, callback)
  ELSE NoSignaler

create_signaler(options, callback) ==
  IF signaler_type(options) = "rabbit" THEN RabbitSignaller(options, callback)
  ELSE IF signaler_type(options) = "none" THEN NoSignaler
  ELSE Raised

\* FunctionCacheItem(None, life_time, function), as function.cache holds it
FunctionCacheItem(key, life) ==
  [bound |-> TRUE, key |-> key, data |-> None,
   expire |-> ItemLifeTime(IntLT(life)), life_time |-> life]

\* get_data(): the item after the call (refreshed when data() was None)
get_data(item, f) ==
  IF item.expire > 0 /\ item.data # None THEN item
  ELSE [item EXCEPT !.data = Result(f),
                    !.expire = ItemLifeTime(IntLT(item.life_time))]

\* one second passes: every expire time comes one second closer
Older(n) == IF n > 0 THEN n - 1 ELSE 0
OlderItems(items) == [i \in DOMAIN items |-> [items[i] EXCEPT !.expire = Older(@)]]
OlderDict(d) == [i \in DOMAIN d |-> [d[i] EXCEPT !.items = OlderItems(@)]]

\* --------------------------------------------------------------- the state
\* _clean between its bytecodes: "keys" and "pos" are the iterator of line 90
\* over the OrderedDict it was made from, "valid" is valid_cache_dict;
\* "mutated" says that OrderedDict has been restructured since (its od_state
\* moved), "detached" that self.__cache_dict names another object by now;
\* ghost "written": the keys written since the sweep began and still held
SweepIdle ==
  [pc |-> "idle", keys |-> <<>>, pos |-> 0, valid |-> <<>>,
   mutated |-> FALSE, detached |-> FALSE, written |-> {}]

\* a call record: the operation, its arguments, and what it returned
\* ("before" is the number of keys in the dictionary when the call began)
Call(op, key, res) ==
  [op |-> op, key |-> key, data |-> None, keys |-> NoKeys, fn |-> None,
   lt |-> NoneLT, options |-> NoOptions, res |-> res, out |-> <<>>,
   invoked |-> FALSE, before |-> _size(cache_dict)]

\* ghost: the recency list kept by the touches themselves
Touch(t, key) == Append(SelectSeq(t, LAMBDA k : k # key), key)
Restrict(t, S) == SelectSeq(t, LAMBDA k : k \in S)

\* what a running _clean's iterator sees of an operation that takes the
\* dictionary from d to d2 and writes the keys "wrote": the OrderedDict it
\* walks has been restructured, or self.__cache_dict names another object now
NoteMutation(sw, d, d2, replaced, wrote) ==
  IF sw.pc = "idle" THEN sw
  ELSE [sw EXCEPT
          !.detached = @ \/ replaced,
          !.mutated = @ \/ (~replaced /\ ~sw.detached /\ KeyOrder(d2) # KeyOrder(d)),
          !.written = (@ \cup wrote) \cap KeysOf(d2)]

Init ==
  /\ cache_dict = <<>>
  /\ fitems = [f \in Functions |-> NoItem]
  /\ sweep = SweepIdle
  /\ touched = <<>>
  /\ signaler = NoChannel
  /\ last = [Call("init", None, None) EXCEPT !.before = 0]

\* ------------------------------------------------------------- the actions
AddOrUpdate(key, data, lt) ==
  /\ TotalEntries(cache_dict) < MaxEntries
  /\ LET d2 == _add_to_cache(cache_dict, key, CostumCacheItem(data, lt))
     IN /\ cache_dict' = d2
        /\ touched' = Restrict(Touch(touched, key), KeysOf(d2))
        /\ sweep' = NoteMutation(sweep, cache_dict, d2, FALSE, {key})
  /\ last' = [Call("add_or_update", key, AddStatus(cache_dict, key)) EXCEPT
                !.data = data, !.lt = lt]
  /\ UNCHANGED <<fitems, signaler>>

SetData(key, data, lt) ==
  /\ TotalEntries(cache_dict) - Len(Bucket(cache_dict, key)) < MaxEntries
  /\ LET d2 == set_data(cache_dict, key, CostumCacheItem(data, lt))
     IN /\ cache_dict' = d2
        /\ touched' = Restrict(Touch(touched, key), KeysOf(d2))
        /\ sweep' = NoteMutation(sweep, cache_dict, d2, FALSE, {key})
  /\ last' = [Call("set_data", key, "SET") EXCEPT !.data = data, !.lt = lt]
  /\ UNCHANGED <<fitems, signaler>>

GetCache(key) ==
  /\ LET d2 == get_cache(cache_dict, key)
         list == DataOf(Bucket(cache_dict, key), fitems)
     IN /\ cache_dict' = d2
        /\ touched' = IF key \in KeysOf(cache_dict) THEN Touch(touched, key) ELSE touched
        /\ sweep' = NoteMutation(sweep, cache_dict, d2, FALSE, {})
        /\ last' = IF key \in KeysOf(cache_dict) /\ Len(list) > 0
                     THEN [Call("get_cache", key, "list") EXCEPT !.out = list]
                     ELSE Call("get_cache", key, None)
  /\ UNCHANGED <<fitems, signaler>>

Remove(key, data) ==
  /\ LET d2 == remove(cache_dict, key, data, fitems)
     IN /\ cache_dict' = d2
        /\ last' = [Call("remove", key,
                           IF d2 # cache_dict THEN "REMOVED" ELSE "NONE") EXCEPT
                      !.data = data]
        /\ sweep' = NoteMutation(sweep, cache_dict, d2, FALSE, {})
  /\ UNCHANGED <<fitems, touched, signaler>>

Reset(keys) ==
  /\ LET d2 == reset(cache_dict, keys)
     IN /\ cache_dict' = d2
        /\ touched' = Restrict(touched, KeysOf(d2))
        /\ sweep' = NoteMutation(sweep, cache_dict, d2,
                                 keys.none \/ Len(keys.list) = 0, {})
  /\ last' = [Call("reset", None, "RESET") EXCEPT !.keys = keys]
  /\ UNCHANGED <<fitems, signaler>>

\* clean(), run to its end with nothing in between
Clean ==
  /\ sweep.pc = "idle"
  /\ LET d2 == _clean(cache_dict, fitems)
     IN /\ cache_dict' = d2
        /\ touched' = Restrict(touched, KeysOf(d2))
  /\ last' = Call("clean", None, "CLEANED")
  /\ UNCHANGED <<fitems, sweep, signaler>>

\* _clean, lines 89-90: the new dictionary and the iterator over the old one
CleanBegin ==
  /\ sweep.pc = "idle"
  /\ sweep' = [SweepIdle EXCEPT !.pc = "loop", !.keys = KeyOrder(cache_dict),
                               !.pos = 1]
  /\ UNCHANGED <<cache_dict, fitems, touched, signaler, last>>

\* _clean, lines 90-96: the iterator's next key and the loop's body for it.
\* An exhausted iterator ends the loop; one whose OrderedDict was
\* restructured raises RuntimeError; self.__cache_dict[key] raises KeyError
\* when the dictionary of the moment does not hold the key.
CleanStep ==
  /\ sweep.pc = "loop"
  /\ IF sweep.pos > Len(sweep.keys)
       THEN /\ sweep' = [sweep EXCEPT !.pc = "assign"]
            /\ UNCHANGED last
     ELSE IF sweep.mutated
       THEN /\ sweep' = SweepIdle
            /\ last' = Call("clean", None, "RuntimeError")
     ELSE IF sweep.keys[sweep.pos] \notin KeysOf(cache_dict)
       THEN /\ sweep' = SweepIdle
            /\ last' = Call("clean", None, "KeyError")
     ELSE LET key == sweep.keys[sweep.pos]
              valid_cache_list == ValidItems(Bucket(cache_dict, key), fitems)
          IN /\ sweep' = [sweep EXCEPT
                            !.pos = @ + 1,
                            !.valid = IF Len(valid_cache_list) > 0
                                        THEN Append(@, [key |-> key,
                                                        items |-> valid_cache_list])
                                        ELSE @]
             /\ UNCHANGED last
  /\ UNCHANGED <<cache_dict, fitems, touched, signaler>>

\* _clean, lines 97-98: self.__cache_dict = valid_cache_dict
CleanAssign ==
  /\ sweep.pc = "assign"
  /\ cache_dict' = sweep.valid
  /\ touched' = Restrict(touched, KeysOf(sweep.valid))
  /\ sweep' = SweepIdle
  /\ last' = Call("clean", None, "CLEANED")
  /\ UNCHANGED <<fitems, signaler>>

\* cache_decorator(key, life_time) applied to function f; "passed" is the
\* life_time cache_decorator receives, "lt" the one its caller wrote
Decorate(op, key, lt, passed, f) ==
  LET rec == [Call(op, key, None) EXCEPT !.lt = lt]
  IN IF passed.type = "str"
       THEN /\ last' = [rec EXCEPT !.res = "TypeError"]
            /\ UNCHANGED <<cache_dict, fitems, touched, sweep, signaler>>
     ELSE IF KeyMissing(key)
       THEN /\ last' = [rec EXCEPT !.res = "ValueError"]
            /\ UNCHANGED <<cache_dict, fitems, touched, sweep, signaler>>
     ELSE /\ ~fitems[f].bound
          /\ TotalEntries(cache_dict) < MaxEntries
          /\ LET d2 == _add_to_cache(cache_dict, key, FunctionItemRef(f))
             IN /\ fitems' = [fitems EXCEPT
                                ![f] = FunctionCacheItem(key, DecoratorLifeTime(passed))]
                /\ cache_dict' = d2
                /\ touched' = Restrict(Touch(touched, key), KeysOf(d2))
                /\ sweep' = NoteMutation(sweep, cache_dict, d2, FALSE, {key})
          /\ last' = [rec EXCEPT !.res = "wrapper", !.fn = f]
          /\ UNCHANGED signaler

\* manager.cache_decorator(key[, life_time])(f)
CacheDecorator(key, lt, f) ==
  Decorate("cache_decorator", key, lt, DefaultLifeTime(lt), f)

\* dispatcher.cache([life_time,] key=key)(f)
DispatcherCache(key, lt, f) ==
  Decorate("cache", key, lt, DispatcherLifeTime(lt), f)

\* a call of the wrapper the decorator returned for f
CallWrapper(f) ==
  /\ fitems[f].bound
  /\ LET item == get_data(fitems[f], f)
     IN /\ fitems' = [fitems EXCEPT ![f] = item]
        /\ last' = [Call("call", fitems[f].key, "value") EXCEPT
                      !.fn = f, !.out = <<item.data>>,
                      !.invoked = (item # fitems[f])]
  /\ UNCHANGED <<cache_dict, touched, sweep, signaler>>

\* the manager's construction: create_signaler(options, self.reset); a raise
\* leaves the manager without a channel
CreateSignaler(options) ==
  /\ signaler.kind = None
  /\ LET ret_val == create_signaler(options, "reset")
     IN /\ signaler' = IF ret_val = Raised THEN signaler ELSE ret_val
        /\ last' = [Call("create_signaler", None, ret_val.kind) EXCEPT
                      !.options = options]
  /\ UNCHANGED <<cache_dict, fitems, sweep, touched>>

\* a message of the broker arrives with a sequence of keys: the channel
\* hands it to the callback it holds, the manager's reset
OnMessage(keys) ==
  /\ signaler.callback = "reset"
  /\ LET d2 == reset(cache_dict, keys)
     IN /\ cache_dict' = d2
        /\ touched' = Restrict(touched, KeysOf(d2))
        /\ sweep' = NoteMutation(sweep, cache_dict, d2,
                                 keys.none \/ Len(keys.list) = 0, {})
  /\ last' = [Call("on_message", None, "RESET") EXCEPT !.keys = keys]
  /\ UNCHANGED <<fitems, signaler>>

Tick ==
  /\ cache_dict' = OlderDict(cache_dict)
  /\ fitems' = [f \in Functions |-> [fitems[f] EXCEPT !.expire = Older(@)]]
  /\ sweep' = [sweep EXCEPT !.valid = OlderDict(@)]
  /\ last' = Call("tick", None, None)
  /\ UNCHANGED <<touched, signaler>>

\* The store under the request operations, the sweep and the clock.
Next ==
  \/ \E key \in Keys, data \in Data, lt \in StoreLifeTimes : AddOrUpdate(key, data, lt)
  \/ \E key \in Keys, data \in Data, lt \in StoreLifeTimes : SetData(key, data, lt)
  \/ \E key \in Keys : GetCache(key)
  \/ \E key \in Keys : Remove(key, "a")
  \/ \E keys \in ResetArgs : Reset(keys)
  \/ Clean
  \/ Tick

Spec == Init /\ [][Next]_vars

\* The contents of the buckets: the request operations with every payload and
\* life time on two keys, the sweep and the clock.
NextBucket ==
  \/ \E key \in SweepKeys, data \in Data, lt \in StoreLifeTimes :
       AddOrUpdate(key, data, lt)
  \/ \E key \in SweepKeys, data \in Data, lt \in StoreLifeTimes :
       SetData(key, data, lt)
  \/ \E key \in SweepKeys : GetCache(key)
  \/ \E key \in SweepKeys, data \in Data : Remove(key, data)
  \/ \E keys \in SweepResetArgs \cup {KeyList(<<"B", "B">>)} : Reset(keys)
  \/ Clean
  \/ Tick

SpecBucket == Init /\ [][NextBucket]_vars

\* The invalidation channel: the manager is built with every configuration,
\* takes writes, and resets on the messages its channel delivers. A message
\* carries a list of keys: the broker's messages never stand for None.
NextSignal ==
  \/ \E options \in SignalerOptions : CreateSignaler(options)
  \/ \E keys \in ResetArgs \ {NoKeys} : OnMessage(keys)
  \/ \E key \in Keys : AddOrUpdate(key, "a", NoneLT)
  \/ \E key \in Keys : GetCache(key)
  \/ \E keys \in SweepResetArgs : Reset(keys)

SpecSignal == Init /\ [][NextSignal]_vars

\* Recency and expiry: the request operations on three keys and the clock,
\* with the sweep and the full reset that end a key's stay.
NextLazy ==
  \/ \E key \in Keys, data \in Data : AddOrUpdate(key, data, NoneLT)
  \/ \E key \in Keys : SetData(key, "a", NoneLT)
  \/ \E key \in Keys : GetCache(key)
  \/ \E key \in Keys : Remove(key, "a")
  \/ Reset(NoKeys)
  \/ Clean
  \/ Tick

SpecLazy == Init /\ [][NextLazy]_vars

\* The memoizing decorator and its wrappers, over a store that takes the
\* touching operations with one payload: f1 is decorated with every argument
\* pair, f2 after it under the key "A".
NextMemo ==
  \/ \E key \in Keys : AddOrUpdate(key, "a", NoneLT)
  \/ \E key \in Keys : SetData(key, "a", NoneLT)
  \/ \E key \in Keys : GetCache(key)
  \/ \E keys \in MemoResetArgs : Reset(keys)
  \/ \E a \in MemoArgs : CacheDecorator(a.key, a.lt, "f1")
  \/ \E a \in MemoArgs : DispatcherCache(a.key, a.lt, "f1")
  \/ fitems["f1"].key = "A" /\ CacheDecorator("A", NoneLT, "f2")
  \/ \E f \in Functions : CallWrapper(f)
  \/ Tick

SpecMemo == Init /\ [][NextMemo]_vars

\* The request operations and the broker's reset while the periodic _clean
\* runs in its own execution context, one loop iteration at a time. A sweep
\* takes less than a second: the clock moves between sweeps.
NextSweep ==
  \/ \E key \in SweepKeys : AddOrUpdate(key, "a", NoneLT)
  \/ \E key \in SweepKeys : SetData(key, "a", NoneLT)
  \/ \E key \in SweepKeys : GetCache(key)
  \/ \E key \in SweepKeys : Remove(key, "a")
  \/ \E keys \in SweepResetArgs : Reset(keys)
  \/ CleanBegin
  \/ CleanStep
  \/ CleanAssign
  \/ sweep.pc = "idle" /\ Tick

SpecSweep == Init /\ [][NextSweep]_vars


\* ------------------------------------------------------------ properties
Range(seq) == {seq[i] : i \in DOMAIN seq}
IsDecoration(c) == c.op \in {"cache_decorator", "cache"}
ClearsAll(keys) == keys.none \/ keys.list = <<>>

\* C1: the number of keys in the store is at most the capacity after every
\* call, set_data of a new key into a full store included.
C1_SizeWithinCapacity == _size(cache_dict) <= max_size

\* C2: when add_or_update or a memoize registration inserts a new key into a
\* store that holds exactly max_size keys, exactly one key leaves, and it is
\* the least recently touched one (insertion, add_or_update, set_data and
\* get_cache of a present key being the touches).
C2_EvictsLeastRecentlyTouched ==
  [][(/\ last'.op = "add_or_update" \/ (IsDecoration(last') /\ last'.res = "wrapper")
      /\ last'.key \notin KeysOf(cache_dict)
      /\ _size(cache_dict) = max_size)
     => /\ KeysOf(cache_dict') =
             (KeysOf(cache_dict) \ {Head(touched)}) \cup {last'.key}
        /\ _size(cache_dict') = max_size
        /\ \A k \in KeysOf(cache_dict) \ {Head(touched)} :
             Bucket(cache_dict', k) = Bucket(cache_dict, k)]_vars

\* C2 witness: add_or_update("C") on a full store has left exactly A and C,
\* A the older of the two (put A, put B, get A, put C).
C2_Witness ==
  /\ last.op = "add_or_update" /\ last.key = "C"
  /\ last.before = max_size
  /\ KeyOrder(cache_dict) = <<"A", "C">>

\* C3: after reset([K]) or reset(), the next call of the wrapper memoized
\* under K runs the computation again.
C3_ResetForcesRecompute ==
  [][(/\ last.op = "reset"
      /\ last'.op = "call"
      /\ ClearsAll(last.keys) \/ last'.key \in Range(last.keys.list))
     => last'.invoked]_vars

\* C4 (as claimed): registering f2 under the key that holds f1's entry leaves
\* only f2's entry in the bucket, and every later call runs f2.
C4_SecondBindingOverwrites ==
  /\ [][(/\ IsDecoration(last') /\ last'.res = "wrapper" /\ last'.fn = "f2"
         /\ FunctionItemRef("f1") \in Range(Bucket(cache_dict, last'.key)))
        => Bucket(cache_dict', last'.key) = <<FunctionItemRef("f2")>>]_vars
  /\ [][(/\ last'.op = "call" /\ last'.invoked
         /\ fitems["f2"].bound /\ fitems["f2"].key = fitems["f1"].key)
        => last'.out = <<Result("f2")>>]_vars

\* C4 (amended): registering f2 under the key that holds f1's entry appends
\* f2's entry to the bucket and leaves f1's entry and f1's binding as they
\* were; a call through a wrapper that computes runs the wrapper's own
\* function; the registration returns a wrapper.
C4_SecondBindingAppends ==
  /\ [][(/\ IsDecoration(last') /\ last'.fn = "f2"
         /\ FunctionItemRef("f1") \in Range(Bucket(cache_dict, last'.key)))
        => /\ last'.res = "wrapper"
           /\ Bucket(cache_dict', last'.key) =
                Append(Bucket(cache_dict, last'.key), FunctionItemRef("f2"))
           /\ fitems'["f1"] = fitems["f1"]]_vars
  /\ [][(last'.op = "call" /\ last'.invoked)
        => last'.out = <<Result(last'.fn)>>]_vars

C4_Witness ==
  /\ IsDecoration(last) /\ last.fn = "f2" /\ last.res = "wrapper"
  /\ Bucket(cache_dict, "A") = <<FunctionItemRef("f1"), FunctionItemRef("f2")>>

C6_EffectiveLifeTime ==
  [][(IsDecoration(last') /\ last'.key # None)
     => /\ last'.res = "wrapper"
        /\ fitems'[last'.fn].life_time =
             (IF last'.lt.type = "int" THEN Min(last'.lt.v, max_life_time)
              ELSE default_life_time)]_vars

\* C7: a key written by an add_or_update or set_data that returned while a
\* sweep was in progress, and that still holds an unexpired entry when the
\* sweep ends, is in the store after the sweep (as it is after every serial
\* order of the same calls).
C7_WritesSurviveSweep ==
  [][(sweep.pc = "assign" /\ sweep'.pc = "idle")
     => \A k \in sweep.written :
          ValidItems(Bucket(cache_dict, k), fitems) # <<>>
            => k \in KeysOf(cache_dict')]_vars

\* C8: reset() and reset([]) leave the store empty; get_cache of a key that
\* is not in the store returns None; a key comes back only by being written.
C8_ResetAllEmpties ==
  /\ [][(last'.op = "reset" /\ ClearsAll(last'.keys))
        => (cache_dict' = <<>> /\ last'.res = "RESET")]_vars
  /\ [][(last'.op = "get_cache" /\ last'.key \notin KeysOf(cache_dict))
        => (last'.res = None /\ last'.key \notin KeysOf(cache_dict'))]_vars
  /\ [][\A k \in KeysOf(cache_dict') \ KeysOf(cache_dict) :
          last'.key = k /\ last'.op \in {"add_or_update", "set_data"}]_vars

C8_Witness ==
  /\ last.op = "reset" /\ last.keys = KeyList(<<>>)
  /\ last.before = max_size
  /\ cache_dict = <<>>

\* C9: reset(keys) with a non-empty list removes exactly the named keys that
\* are present, leaves every other bucket and the order of the remaining keys
\* as they were, and returns RESET.
C9_ResetNamedOnly ==
  [][(last'.op = "reset" /\ ~ClearsAll(last'.keys))
     => /\ cache_dict' =
             SelectSeq(cache_dict, LAMBDA e : e.key \notin Range(last'.keys.list))
        /\ last'.res = "RESET"]_vars

C9_Witness ==
  /\ last.op = "reset" /\ last.keys = KeyList(<<"B", "C">>)
  /\ last.before = max_size
  /\ KeyOrder(cache_dict) = <<"A">>

\* C10: on every store, reset(ks1) twice equals reset(ks1) once, and
\* reset(ks1) then reset(ks2) equals reset(ks2) then reset(ks1).
C10_ResetIdempotentCommutes ==
  \A ks1 \in KeyLists :
    LET once == reset(cache_dict, ks1)
    IN /\ reset(once, ks1) = once
       /\ \A ks2 \in KeyLists :
            reset(once, ks2) = reset(reset(cache_dict, ks2), ks1)

\* C10 witness: a second delivery of reset(["A"]) that found nothing to do,
\* on a store that still holds other keys.
C10_Witness ==
  /\ last.op = "reset" /\ last.keys = KeyList(<<"A">>)
  /\ last.before = max_size
  /\ _size(cache_dict) = max_size

\* the payloads a bucket gives out: those of its unexpired entries, in order
Live(items) == SelectSeq(items, LAMBDA item : ItemData(item) # None)
Payloads(items) == [i \in DOMAIN items |-> ItemData(items[i])]
Newest(d) == d[Len(d)].key
StoreOps == {"get_cache", "remove", "reset", "add_or_update", "set_data"}

C12_AppendsInOrder ==
  /\ [][last'.op = "add_or_update"
        => Bucket(cache_dict', last'.key) =
             Append(Bucket(cache_dict, last'.key),
                    CostumCacheItem(last'.data, last'.lt))]_vars
  /\ [][(/\ last.op = "add_or_update"
         /\ last'.op = "get_cache" /\ last'.key = last.key
         /\ Len(Bucket(cache_dict, last.key)) = 2
         /\ Live(Bucket(cache_dict, last.key)) = Bucket(cache_dict, last.key))
        => /\ last'.res = "list"
           /\ last'.out = <<Bucket(cache_dict, last.key)[1].data, last.data>>]_vars

\* C12 witness: get_cache("A") has returned ["a", "b"].
C12_Witness ==
  /\ last.op = "get_cache" /\ last.key = "A"
  /\ last.res = "list" /\ last.out = <<"a", "b">>

\* C13: remove(K, a) takes out of K's bucket the first entry whose payload is
\* a, keeps the other entries in their order, leaves every other bucket and
\* the order of the keys as they were, and returns REMOVED; when K is absent
\* or no entry of its bucket has the payload a, it returns NONE and the store
\* is unchanged.
C13_RemovesFirstMatch ==
  [][last'.op = "remove"
     => LET items == Bucket(cache_dict, last'.key)
            hits == {i \in DOMAIN items : ItemData(items[i]) = last'.data}
        IN IF hits = {}
             THEN last'.res = "NONE" /\ cache_dict' = cache_dict
             ELSE /\ last'.res = "REMOVED"
                  /\ \E i \in hits :
                       /\ \A j \in hits : i <= j
                       /\ Bucket(cache_dict', last'.key) =
                            SubSeq(items, 1, i - 1) \o SubSeq(items, i + 1, Len(items))
                  /\ KeyOrder(cache_dict') = KeyOrder(cache_dict)
                  /\ \A k \in KeysOf(cache_dict) \ {last'.key} :
                       Bucket(cache_dict', k) = Bucket(cache_dict, k)]_vars

\* C13 witness: remove("A", "a") has returned REMOVED and left the bucket
\* with the payloads ["b", "a"]: a later entry with the payload "a" stays.
C13_Witness ==
  /\ last.op = "remove" /\ last.key = "A" /\ last.data = "a"
  /\ last.res = "REMOVED"
  /\ Payloads(Bucket(cache_dict, "A")) = <<"b", "a">>

\* C14: clean() returns CLEANED and leaves, for every key, exactly the
\* unexpired entries of its bucket in their order; the keys that keep an
\* entry stay in the order they had; a key stays if and only if its bucket
\* held an unexpired entry.
C14_CleanRemovesExpiredOnly ==
  [][last'.op = "clean"
     => /\ last'.res = "CLEANED"
        /\ KeysOf(cache_dict') =
             {k \in KeysOf(cache_dict) : Live(Bucket(cache_dict, k)) # <<>>}
        /\ KeyOrder(cache_dict') =
             SelectSeq(KeyOrder(cache_dict), LAMBDA k : k \in KeysOf(cache_dict'))
        /\ \A k \in KeysOf(cache_dict') :
             Bucket(cache_dict', k) = Live(Bucket(cache_dict, k))]_vars

\* C14 witness: clean() has run on a full store and left one key, whose
\* bucket holds two unexpired entries.
C14_Witness ==
  /\ last.op = "clean" /\ last.res = "CLEANED" /\ last.before = max_size
  /\ _size(cache_dict) = 1 /\ TotalEntries(cache_dict) = 2

\* C15: get_cache(K) returns None and changes nothing when K is not in the
\* store; otherwise it makes K the newest key, changes no bucket and no other
\* key's place, and returns the payloads of the entries of K's bucket that
\* are unexpired, in the bucket's order, or None when there is none (never an
\* empty list).
C15_GetReturnsLivePayloads ==
  [][last'.op = "get_cache"
     => LET live == Payloads(Live(Bucket(cache_dict, last'.key)))
        IN IF last'.key \notin KeysOf(cache_dict)
             THEN last'.res = None /\ cache_dict' = cache_dict
             ELSE /\ Newest(cache_dict') = last'.key
                  /\ Bucket(cache_dict', last'.key) = Bucket(cache_dict, last'.key)
                  /\ Without(cache_dict', last'.key) = Without(cache_dict, last'.key)
                  /\ IF live = <<>> THEN last'.res = None /\ last'.out = <<>>
                     ELSE last'.res = "list" /\ last'.out = live]_vars

\* C15 witness: get_cache("A") has returned ["b"] from a bucket of two
\* entries, the first of them expired, and A has become the newest key.
C15_Witness ==
  /\ last.op = "get_cache" /\ last.key = "A" /\ last.out = <<"b">>
  /\ Payloads(Bucket(cache_dict, "A")) = <<None, "b">>
  /\ _size(cache_dict) = max_size /\ Newest(cache_dict) = "A"

\* C16: a store operation called with a key that is not in the store raises
\* nothing: get_cache returns None and remove returns NONE, both leaving the
\* store as it was; reset of a list of absent keys returns RESET and removes
\* nothing; add_or_update and set_data return their status and hold the key
\* afterwards.
C16_AbsentKeyNeverRaises ==
  /\ [][(last'.op \in {"get_cache", "remove"} /\ last'.key \notin KeysOf(cache_dict))
        => /\ last'.res = (IF last'.op = "remove" THEN "NONE" ELSE None)
           /\ cache_dict' = cache_dict]_vars
  /\ [][(/\ last'.op = "reset" /\ ~ClearsAll(last'.keys)
         /\ Range(last'.keys.list) \cap KeysOf(cache_dict) = {})
        => (last'.res = "RESET" /\ cache_dict' = cache_dict)]_vars
  /\ [][(/\ last'.op \in {"add_or_update", "set_data"}
         /\ last'.key \notin KeysOf(cache_dict))
        => /\ last'.res \in {"ADDED", "UPDATED", "SET"}
           /\ last'.key \in KeysOf(cache_dict')]_vars
  /\ [][last'.op \in StoreOps
        => last'.res \in {None, "list", "NONE", "REMOVED", "RESET",
                          "ADDED", "UPDATED", "SET"}]_vars

\* C16 witness: remove("C", "a") has returned NONE on a full store that does
\* not hold C.
C16_Witness ==
  /\ last.op = "remove" /\ last.key = "C" /\ last.res = "NONE"
  /\ KeysOf(cache_dict) = {"A", "B"}

\* C17: create_signaler goes by the configuration's tag: with no
\* configuration, an empty one, one without a tag, or the tag "none", it
\* returns the NoSignaler, which holds no callback; with the tag "rabbit" it
\* returns the RabbitSignaller holding the callback it was given; with any
\* other tag it raises and the manager has no channel. Only a channel that
\* holds the callback ever delivers a message to reset.
C17_ChannelByTag ==
  /\ [][last'.op = "create_signaler"
        => LET o == last'.options
               untagged == o.none \/ o.entries = 0 \/ o.type = NoType
           IN IF untagged \/ o.type = "none"
                THEN /\ last'.res = "NoSignaler"
                     /\ signaler' = [kind |-> "NoSignaler", callback |-> None]
              ELSE IF o.type = "rabbit"
                THEN /\ last'.res = "RabbitSignaller"
                     /\ signaler' = [kind |-> "RabbitSignaller", callback |-> "reset"]
              ELSE /\ last'.res = "Exception"
                   /\ signaler' = NoChannel]_vars
  /\ [][last'.op = "on_message" => signaler.kind = "RabbitSignaller"]_vars
  /\ [][signaler.kind = "NoSignaler"
        => (signaler' = signaler /\ last'.op # "on_message")]_vars

\* C17 witness: the manager was built with the NoSignaler and its store has
\* filled up without a message ever having reset it.
C17_Witness ==
  /\ signaler = NoSignaler
  /\ _size(cache_dict) = max_size

\* C18: the step that applies the decorator puts the function's entry in the
\* store: right after it, before any call of the wrapper, the key is in the
\* store with the entry at the end of its bucket, is the newest key, and
\* counts in the size; when the key is new and the store holds max_size keys
\* or more, the least recently touched key has left. A call of the wrapper
\* leaves the store as it was.
C18_RegisteredAtWrapTime ==
  /\ [][(IsDecoration(last') /\ last'.res = "wrapper")
        => /\ fitems'[last'.fn].data = None
           /\ Bucket(cache_dict', last'.key) =
                Append(Bucket(cache_dict, last'.key), FunctionItemRef(last'.fn))
           /\ Newest(cache_dict') = last'.key
           /\ _size(cache_dict') = Cardinality(KeysOf(cache_dict'))
           /\ KeysOf(cache_dict') =
                IF last'.key \notin KeysOf(cache_dict) /\ _size(cache_dict) >= max_size
                  THEN (KeysOf(cache_dict) \ {Head(touched)}) \cup {last'.key}
                  ELSE KeysOf(cache_dict) \cup {last'.key}]_vars
  /\ [][last'.op = "call" => cache_dict' = cache_dict]_vars

\* C18 witness: the decorator has been applied with the key "" on a full
\* store: "" is the newest of max_size keys and the function has not run.
C18_Witness ==
  /\ IsDecoration(last) /\ last.res = "wrapper" /\ last.key = ""
  /\ last.before = max_size /\ _size(cache_dict) = max_size
  /\ Newest(cache_dict) = "" /\ fitems[last.fn].data = None

\* C19: add_or_update returns ADDED when the key was not in the store and
\* UPDATED when it was.
C19_AddedOrUpdated ==
  [][last'.op = "add_or_update"
     => last'.res = (IF last'.key \in KeysOf(cache_dict) THEN "UPDATED"
                     ELSE "ADDED")]_vars

\* C20: no call ends by raising, whatever the other execution contexts do
\* meanwhile: a sweep that runs while request operations and resets run ends
\* with CLEANED.
C20_NoCallRaises == last.res \notin {"RuntimeError", "KeyError"}

\* the expired entries of a bucket, in order
Expired(items) == SelectSeq(items, LAMBDA item : ItemData(item) = None)
IsPrefix(s, t) == Len(s) <= Len(t) /\ SubSeq(t, 1, Len(s)) = s
Requests == {"get_cache", "remove", "add_or_update", "set_data"}

C22_RemoveKeepsKeys ==
  /\ [][last'.op = "remove"
        => /\ KeyOrder(cache_dict') = KeyOrder(cache_dict)
           /\ _size(cache_dict') = _size(cache_dict)
           /\ touched' = touched
           /\ (last'.res = "REMOVED")
                => Len(Bucket(cache_dict', last'.key)) =
                     Len(Bucket(cache_dict, last'.key)) - 1]_vars
  /\ [][(/\ last'.op = "get_cache" /\ last'.key \in KeysOf(cache_dict)
         /\ Bucket(cache_dict, last'.key) = <<>>)
        => /\ last'.res = None
           /\ last'.key \in KeysOf(cache_dict')
           /\ Bucket(cache_dict', last'.key) = <<>>]_vars
  /\ [][(/\ last'.op = "add_or_update" /\ last'.key \notin KeysOf(cache_dict)
         /\ _size(cache_dict) = max_size)
        => _size(cache_dict') = max_size]_vars

\* C22 witness: remove("A", "a") has taken the only entry of A's bucket out
\* of a full store: A is still a key, the store is still full, and A is
\* still the older of the two keys.
C22_Witness ==
  /\ last.op = "remove" /\ last.key = "A" /\ last.res = "REMOVED"
  /\ Bucket(cache_dict, "A") = <<>> /\ "A" \in KeysOf(cache_dict)
  /\ _size(cache_dict) = max_size /\ Head(touched) = "A"

\* C23: an add_or_update(K, v) on a store of at most max_size keys never
\* evicts K: right after the call K is in the store and is the newest key,
\* v's entry is the last of K's bucket, and a get_cache(K) that follows at
\* once, v unexpired, returns a list that ends with v.
C23_WrittenKeyStays ==
  /\ [][(last'.op = "add_or_update" /\ _size(cache_dict) <= max_size)
        => /\ last'.key \in KeysOf(cache_dict')
           /\ Newest(cache_dict') = last'.key
           /\ Bucket(cache_dict', last'.key) # <<>>
           /\ LET items == Bucket(cache_dict', last'.key)
              IN items[Len(items)] = CostumCacheItem(last'.data, last'.lt)]_vars
  /\ [][(/\ last.op = "add_or_update" /\ _size(cache_dict) <= max_size
         /\ ItemLifeTime(last.lt) > 0
         /\ last'.op = "get_cache" /\ last'.key = last.key)
        => /\ last'.res = "list"
           /\ last'.out[Len(last'.out)] = last.data]_vars

\* C23 witness: add_or_update("B", "b") has returned on a full store: B is
\* the newest of max_size keys, and "b" is the entry of its bucket.
C23_Witness ==
  /\ last.op = "add_or_update" /\ last.key = "B" /\ last.data = "b"
  /\ last.before = max_size /\ KeyOrder(cache_dict) = <<"C", "B">>
  /\ Payloads(Bucket(cache_dict, "B")) = <<"b">>

\* C24: a message that carries the empty list of keys, handed by the channel
\* to the callback it holds, leaves the store with no key at all.
C24_EmptyMessageClearsAll ==
  [][(last'.op = "on_message" /\ last'.keys = KeyList(<<>>))
     => (cache_dict' = <<>> /\ _size(cache_dict') = 0 /\ last'.res = "RESET")]_vars

\* C24 witness: the RabbitSignaller has delivered the empty list to a full
\* store, which holds nothing now.
C24_Witness ==
  /\ last.op = "on_message" /\ last.keys = KeyList(<<>>)
  /\ signaler.kind = "RabbitSignaller"
  /\ last.before = max_size /\ _size(cache_dict) = 0

====
